---- MODULE Spec2Model ----
(***************************************************************************)
(* Model of lib/iterator.js: the Iterator wrapper, its lazy adaptors       *)
(* (map, filter, flat, flatMap, take, takeWhile, zip, join) and its        *)
(* terminal operations.                                                    *)
(*                                                                         *)
(* JavaScript values are records [t |-> tag, v |-> payload]; an object of  *)
(* one of the classes of the file is a record whose field `kind' names     *)
(* the class and whose other fields are the instance's properties.         *)
(***************************************************************************)
EXTENDS Integers, Sequences, FiniteSets, TLC

(***************************************************************************)
(* Bounds                                                                  *)
(***************************************************************************)
MaxVal == 2
MaxLen == 3
MaxOthers == 2
MaxOtherLen == 2
MaxDepth == 2
MaxNodes == 4
MaxRewind == 1

\* calls of next() are made on an object until this many reported done
MaxDones == MaxRewind + 2

(***************************************************************************)
(* JavaScript values                                                       *)
(***************************************************************************)
Num(n) == [t |-> "num", v |-> n]
Str(n) == [t |-> "str", v |-> n]
Obj(n) == [t |-> "obj", v |-> n]
Arr(s) == [t |-> "arr", v |-> s]
NaN == [t |-> "nan", v |-> 0]
Null == [t |-> "null", v |-> 0]
Undefined == [t |-> "undef", v |-> 0]

Nums == {Num(n) : n \in 1..MaxVal}

\* sequences over S of length at most n
SeqsUpTo(S, n) == UNION {[1..k -> S] : k \in 0..n}

\* value[Symbol.iterator] is truthy
HasIterator(value) == value.t = "arr"

\* reading a property of null or undefined throws a TypeError
PropertyReadThrows(value) == value.t \in {"null", "undef"}

(***************************************************************************)
(* Results of next(): { done, value }, or an exception leaving next().     *)
(* Field o is the object next() was called on, after the call.             *)
(***************************************************************************)
Yield(o, value) == [o |-> o, done |-> FALSE, value |-> value, threw |-> FALSE]
Finish(o) == [o |-> o, done |-> TRUE, value |-> Undefined, threw |-> FALSE]
Throw(o) == [o |-> o, done |-> FALSE, value |-> Undefined, threw |-> TRUE]

(***************************************************************************)
(* iter(base): an Iterator over the cursor base[Symbol.iterator]().        *)
(* The cursor walks items; a cursor with rewinds > 0 is one whose          *)
(* exhaustion is not permanent: after reporting done it starts over.       *)
(* pulls and dones count the next() calls made on the cursor and those     *)
(* that reported done.                                                     *)
(***************************************************************************)
iter(items, rewinds) ==
  [kind |-> "iter", items |-> items, pos |-> 1, rewinds |-> rewinds,
   laps |-> 0, pulls |-> 0, dones |-> 0]

IteratorNext(c) ==
  IF c.pos <= Len(c.items)
    THEN Yield([c EXCEPT !.pos = @ + 1, !.pulls = @ + 1], c.items[c.pos])
    ELSE IF c.laps < c.rewinds
      THEN Finish([c EXCEPT !.pos = 1, !.laps = @ + 1,
                            !.pulls = @ + 1, !.dones = @ + 1])
      ELSE Finish([c EXCEPT !.pulls = @ + 1, !.dones = @ + 1])

\* the cursor's exhaustion is permanent
Permanent(c) == c.rewinds = 0

(***************************************************************************)
(* MapIterator                                                             *)
(***************************************************************************)
MapIterator(base, mapper) == [kind |-> "map", base |-> base, mapper |-> mapper]

MapNext(m) ==
  LET r == IteratorNext(m.base)
      o == [m EXCEPT !.base = r.o]
  IN IF r.done THEN Finish(o) ELSE Yield(o, m.mapper[r.value])

(***************************************************************************)
(* FilterIterator                                                          *)
(***************************************************************************)
FilterIterator(base, predicate) ==
  [kind |-> "filter", base |-> base, predicate |-> predicate]

RECURSIVE FilterNext(_)
FilterNext(f) ==
  LET r == IteratorNext(f.base)
      o == [f EXCEPT !.base = r.o]
  IN IF r.done THEN Finish(o)
     ELSE IF f.predicate[r.value] THEN Yield(o, r.value)
     ELSE FilterNext(o)

(***************************************************************************)
(* TakeIterator                                                            *)
(***************************************************************************)
TakeIterator(base, amount) ==
  [kind |-> "take", base |-> base, amount |-> amount, iterated |-> 0]

\* faulty variants of TakeNext: < for <=, and a counter reset once the
\* amount is exceeded
TakeNextOffByOne(t) ==
  LET o == [t EXCEPT !.iterated = @ + 1]
  IN IF o.iterated < o.amount
       THEN LET r == IteratorNext(o.base)
            IN [r EXCEPT !.o = [o EXCEPT !.base = r.o]]
       ELSE Finish(o)

TakeNextForgetful(t) ==
  LET o == [t EXCEPT !.iterated = @ + 1]
  IN IF o.iterated <= o.amount
       THEN LET r == IteratorNext(o.base)
            IN [r EXCEPT !.o = [o EXCEPT !.base = r.o]]
       ELSE Finish([o EXCEPT !.iterated = 0])

\* faulty variant: base pulled before the counter is compared
TakeNextPullsFirst(t) ==
  LET r == IteratorNext(t.base)
      o == [t EXCEPT !.iterated = @ + 1, !.base = r.o]
  IN IF o.iterated <= o.amount THEN [r EXCEPT !.o = o] ELSE Finish(o)

TakeNext(t) ==
  LET o == [t EXCEPT !.iterated = @ + 1]
  IN IF o.iterated <= o.amount
       THEN LET r == IteratorNext(o.base)
            IN [r EXCEPT !.o = [o EXCEPT !.base = r.o]]
       ELSE Finish(o)

(***************************************************************************)
(* TakeWhileIterator.  tested counts the calls of the predicate.           *)
(***************************************************************************)
TakeWhileIterator(base, predicate) ==
  [kind |-> "takeWhile", base |-> base, predicate |-> predicate,
   done |-> FALSE, tested |-> 0]

\* faulty variants of TakeWhileNext: the done flag never set, and the
\* predicate never called
TakeWhileNextNotSticky(t) ==
  IF t.done THEN Finish(t)
  ELSE LET r == IteratorNext(t.base)
           o == [t EXCEPT !.base = r.o,
                          !.tested = IF r.done THEN @ ELSE @ + 1]
       IN IF ~r.done /\ t.predicate[r.value] THEN Yield(o, r.value)
          ELSE Finish(o)

TakeWhileNextUnchecked(t) ==
  IF t.done THEN Finish(t)
  ELSE LET r == IteratorNext(t.base)
           o == [t EXCEPT !.base = r.o]
       IN IF ~r.done THEN Yield(o, r.value)
          ELSE Finish([o EXCEPT !.done = TRUE])

\* faulty variant: base pulled by a call made after done was set
TakeWhileNextPullsWhenDone(t) ==
  IF t.done THEN Finish([t EXCEPT !.base = IteratorNext(t.base).o])
  ELSE LET r == IteratorNext(t.base)
           o == [t EXCEPT !.base = r.o,
                          !.tested = IF r.done THEN @ ELSE @ + 1]
       IN IF ~r.done /\ t.predicate[r.value] THEN Yield(o, r.value)
          ELSE Finish([o EXCEPT !.done = TRUE])

TakeWhileNext(t) ==
  IF t.done THEN Finish(t)
  ELSE LET r == IteratorNext(t.base)
           o == [t EXCEPT !.base = r.o,
                          !.tested = IF r.done THEN @ ELSE @ + 1]
       IN IF ~r.done /\ t.predicate[r.value] THEN Yield(o, r.value)
          ELSE Finish([o EXCEPT !.done = TRUE])

(***************************************************************************)
(* FlatIterator.  stack is new Array(depth + 1): slot i of the code is     *)
(* stack[i + 1] here, an unset slot is Undefined.  stack[0] is the object  *)
(* this.base also refers to: the slot holds BaseRef and the object is in   *)
(* field base.  A nested value's iterator is a built-in array iterator,    *)
(* whose exhaustion is permanent.                                          *)
(***************************************************************************)
ArrayIterator(items) == iter(items, 0)

BaseRef == [kind |-> "ref"]

FlatIterator(base, depth) ==
  [kind |-> "flat", base |-> base, currentDepth |-> 0,
   stack |-> [i \in 1..(depth + 1) |-> IF i = 1 THEN BaseRef ELSE Undefined]]

\* base.next() for the objects a FlatIterator is built over
BaseNext(base) ==
  IF base.kind = "map" THEN MapNext(base) ELSE IteratorNext(base)

\* faulty variant: the slot of an exhausted cursor is not cleared
RECURSIVE FlatNextKeepsSlot(_)
FlatNextKeepsSlot(f) ==
  IF f.currentDepth < 0 THEN Finish(f)
  ELSE LET cd == f.currentDepth
           top == f.stack[cd + 1]
           r == IF top = BaseRef THEN BaseNext(f.base) ELSE IteratorNext(top)
           o == IF top = BaseRef THEN [f EXCEPT !.base = r.o]
                                 ELSE [f EXCEPT !.stack[cd + 1] = r.o]
       IN IF r.done
            THEN FlatNextKeepsSlot([o EXCEPT !.currentDepth = cd - 1])
          ELSE IF cd = Len(o.stack) - 1 THEN Yield(o, r.value)
          ELSE IF PropertyReadThrows(r.value) THEN Throw(o)
          ELSE IF ~HasIterator(r.value) THEN Yield(o, r.value)
          ELSE FlatNextKeepsSlot(
                 [o EXCEPT !.stack[cd + 2] = ArrayIterator(r.value.v),
                           !.currentDepth = cd + 1])

RECURSIVE FlatNext(_)
FlatNext(f) ==
  IF f.currentDepth < 0 THEN Finish(f)
  ELSE LET cd == f.currentDepth
           top == f.stack[cd + 1]
           r == IF top = BaseRef THEN BaseNext(f.base) ELSE IteratorNext(top)
           o == IF top = BaseRef THEN [f EXCEPT !.base = r.o]
                                 ELSE [f EXCEPT !.stack[cd + 1] = r.o]
       IN IF r.done
            THEN FlatNext([o EXCEPT !.stack[cd + 1] = Null,
                                    !.currentDepth = cd - 1])
          ELSE IF cd = Len(o.stack) - 1 THEN Yield(o, r.value)
          ELSE IF PropertyReadThrows(r.value) THEN Throw(o)
          ELSE IF ~HasIterator(r.value) THEN Yield(o, r.value)
          ELSE FlatNext([o EXCEPT !.stack[cd + 2] = ArrayIterator(r.value.v),
                                  !.currentDepth = cd + 1])

(***************************************************************************)
(* FlatMapIterator                                                         *)
(***************************************************************************)
FlatMapIterator(base, mapper) ==
  [kind |-> "flatMap", base |-> base, mapper |-> mapper,
   currentIterator |-> Null]

RECURSIVE FlatMapNext(_)
FlatMapNext(f) ==
  LET \* lines 240-246: pull the current sub-iterator
      Sub(g) ==
        LET n == IteratorNext(g.currentIterator)
        IN IF n.done THEN FlatMapNext([g EXCEPT !.currentIterator = Null])
           ELSE Yield([g EXCEPT !.currentIterator = n.o], n.value)
  IN IF f.currentIterator = Null
       THEN LET r == IteratorNext(f.base)
                o == [f EXCEPT !.base = r.o]
                value == f.mapper[r.value]
            IN IF r.done THEN Finish(o)
               ELSE IF PropertyReadThrows(value) THEN Throw(o)
               ELSE IF ~HasIterator(value) THEN Yield(o, value)
               ELSE Sub([o EXCEPT !.currentIterator = ArrayIterator(value.v)])
       ELSE Sub(f)

(***************************************************************************)
(* ZipIterator                                                             *)
(***************************************************************************)
\* faulty variant of the constructor: the first value of base read ahead
ZipIteratorEager(base, iterators) ==
  [kind |-> "zip", base |-> IteratorNext(base).o,
   iterators |-> [i \in 1..Len(iterators) |-> ArrayIterator(iterators[i])]]

ZipIterator(base, iterators) ==
  [kind |-> "zip", base |-> base,
   iterators |-> [i \in 1..Len(iterators) |-> ArrayIterator(iterators[i])]]

\* lines 300-306: the loop over this.iterators, from the i-th on
\* faulty variant: unshift for push
RECURSIVE ZipRestUnshift(_, _, _)
ZipRestUnshift(z, i, result) ==
  IF i > Len(z.iterators) THEN Yield(z, Arr(result))
  ELSE LET n == IteratorNext(z.iterators[i])
           o == [z EXCEPT !.iterators[i] = n.o]
       IN IF n.done THEN Finish(o)
          ELSE ZipRestUnshift(o, i + 1, <<n.value>> \o result)

\* faulty variant: the remaining cursors still pulled once one is exhausted
RECURSIVE ZipRestDrains(_, _, _)
ZipRestDrains(z, i, result) ==
  IF i > Len(z.iterators) THEN Yield(z, Arr(result))
  ELSE LET n == IteratorNext(z.iterators[i])
           o == [z EXCEPT !.iterators[i] = n.o]
       IN IF n.done THEN Finish(ZipRestDrains(o, i + 1, result).o)
          ELSE ZipRestDrains(o, i + 1, Append(result, n.value))

RECURSIVE ZipRest(_, _, _)
ZipRest(z, i, result) ==
  IF i > Len(z.iterators) THEN Yield(z, Arr(result))
  ELSE LET n == IteratorNext(z.iterators[i])
           o == [z EXCEPT !.iterators[i] = n.o]
       IN IF n.done THEN Finish(o)
          ELSE ZipRest(o, i + 1, Append(result, n.value))

ZipNext(z) ==
  LET r == IteratorNext(z.base)
      o == [z EXCEPT !.base = r.o]
  IN IF r.done THEN Finish(o) ELSE ZipRest(o, 1, <<r.value>>)

(***************************************************************************)
(* JoinIterator.  cursors is iterators.map(toIterator); this.iterators is  *)
(* the array iterator over it, queuePos its next index.  currentIterator   *)
(* refers to base (0) or to cursors[currentIterator].                      *)
(***************************************************************************)
JoinIterator(base, iterators) ==
  [kind |-> "join", base |-> base, currentIterator |-> 0, queuePos |-> 1,
   cursors |-> [i \in 1..Len(iterators) |-> ArrayIterator(iterators[i])]]

\* faulty variant of JoinNext: done reported when switching cursors
JoinNextNoRetry(j) ==
  LET cur == j.currentIterator
      r == IteratorNext(IF cur = 0 THEN j.base ELSE j.cursors[cur])
      o == IF cur = 0 THEN [j EXCEPT !.base = r.o]
                      ELSE [j EXCEPT !.cursors[cur] = r.o]
  IN IF ~r.done THEN Yield(o, r.value)
     ELSE IF o.queuePos > Len(o.cursors) THEN Finish(o)
     ELSE Finish([o EXCEPT !.currentIterator = o.queuePos,
                           !.queuePos = @ + 1])

RECURSIVE JoinNext(_)
JoinNext(j) ==
  LET cur == j.currentIterator
      r == IteratorNext(IF cur = 0 THEN j.base ELSE j.cursors[cur])
      o == IF cur = 0 THEN [j EXCEPT !.base = r.o]
                      ELSE [j EXCEPT !.cursors[cur] = r.o]
  IN IF ~r.done THEN Yield(o, r.value)
     ELSE IF o.queuePos > Len(o.cursors) THEN Finish(o)
     ELSE JoinNext([o EXCEPT !.currentIterator = o.queuePos,
                             !.queuePos = @ + 1])

(***************************************************************************)
(* Terminal operations of Iterator.  A for...of over `this' calls next()   *)
(* until it reports done; leaving the loop early calls no return(), the    *)
(* class defines none.                                                     *)
(***************************************************************************)
\* isNaN(value): Number(value) is NaN.  Str is a non-numeric string, Obj a
\* plain object.
IsNaN(value) == value.t \in {"nan", "undef", "str", "obj"}

\* a === b
StrictEquals(a, b) == a.t = b.t /\ a.t # "nan" /\ a.v = b.v

RECURSIVE Includes(_, _)
Includes(c, element) ==
  LET r == IteratorNext(c)
  IN IF r.done THEN [o |-> r.o, result |-> FALSE]
     ELSE IF StrictEquals(r.value, element)
             \/ (IsNaN(r.value) /\ IsNaN(element))
       THEN [o |-> r.o, result |-> TRUE]
     ELSE Includes(r.o, element)

\* the reducers passed to reduce
Reducers == {"pair", "right"}
ApplyReducer(reducer, result, value) ==
  CASE reducer = "pair" -> Arr(<<result, value>>)
    [] reducer = "right" -> value

\* lines 74-77; n counts the calls of the reducer
RECURSIVE ReduceLoop(_, _, _, _)
ReduceLoop(c, reducer, result, n) ==
  LET r == IteratorNext(c)
  IN IF r.done
       THEN [o |-> r.o, threw |-> FALSE, result |-> result, fnCalls |-> n]
       ELSE ReduceLoop(r.o, reducer, ApplyReducer(reducer, result, r.value),
                       n + 1)

\* args are the arguments after the reducer: a parameter without an
\* argument is undefined
Reduce(c, reducer, args) ==
  LET initialValue == IF Len(args) >= 1 THEN args[1] ELSE Undefined
  IN IF initialValue = Undefined
       THEN LET next == IteratorNext(c)
            IN IF next.done
                 THEN [o |-> next.o, threw |-> TRUE, result |-> Undefined,
                       fnCalls |-> 0]
                 ELSE ReduceLoop(next.o, reducer, next.value, 0)
       ELSE ReduceLoop(c, reducer, initialValue, 0)

\* lines 144-146: the i-th and later rounds of the loop of skip
RECURSIVE SkipLoop(_, _, _)
SkipLoop(c, i, amount) ==
  IF i < amount THEN SkipLoop(IteratorNext(c).o, i + 1, amount) ELSE c

\* skip returns this
Skip(c, amount) == SkipLoop(c, 0, amount)

\* lines 91-95: the loop of someCount, n being its counter
RECURSIVE SomeCountLoop(_, _, _, _)
SomeCountLoop(c, predicate, count, n) ==
  LET r == IteratorNext(c)
  IN IF r.done THEN [o |-> r.o, result |-> FALSE]
     ELSE IF predicate[r.value]
       THEN IF n + 1 = count THEN [o |-> r.o, result |-> TRUE]
            ELSE SomeCountLoop(r.o, predicate, count, n + 1)
     ELSE SomeCountLoop(r.o, predicate, count, n)

SomeCount(c, predicate, count) == SomeCountLoop(c, predicate, count, 0)

RECURSIVE EveryLoop(_, _)
EveryLoop(c, predicate) ==
  LET r == IteratorNext(c)
  IN IF r.done THEN [o |-> r.o, result |-> TRUE]
     ELSE IF ~predicate[r.value] THEN [o |-> r.o, result |-> FALSE]
     ELSE EveryLoop(r.o, predicate)

Every(c, predicate) == EveryLoop(c, predicate)

\* find returns the value, and undefined by falling off its end
RECURSIVE FindLoop(_, _)
FindLoop(c, predicate) ==
  LET r == IteratorNext(c)
  IN IF r.done THEN [o |-> r.o, result |-> Undefined]
     ELSE IF predicate[r.value] THEN [o |-> r.o, result |-> r.value]
     ELSE FindLoop(r.o, predicate)

Find(c, predicate) == FindLoop(c, predicate)

\* faulty variant of the loop of some: every value tested
RECURSIVE SomeLoopDrains(_, _)
SomeLoopDrains(c, predicate) ==
  LET r == IteratorNext(c)
  IN IF r.done THEN [o |-> r.o, result |-> FALSE]
     ELSE LET rest == SomeLoopDrains(r.o, predicate)
          IN [o |-> rest.o, result |-> predicate[r.value] \/ rest.result]

RECURSIVE SomeLoop(_, _)
SomeLoop(c, predicate) ==
  LET r == IteratorNext(c)
  IN IF r.done THEN [o |-> r.o, result |-> FALSE]
     ELSE IF predicate[r.value] THEN [o |-> r.o, result |-> TRUE]
     ELSE SomeLoop(r.o, predicate)

Some(c, predicate) == SomeLoop(c, predicate)

\* Array.from(this): the values of next() up to the first done
RECURSIVE ToArrayLoop(_, _)
ToArrayLoop(c, array) ==
  LET r == IteratorNext(c)
  IN IF r.done THEN [o |-> r.o, result |-> Arr(array)]
     ELSE ToArrayLoop(r.o, Append(array, r.value))

ToArray(c) == ToArrayLoop(c, <<>>)

\* toIterator(base) for the array that cursor c walks: base[Symbol.iterator]()
\* is a new array iterator, at the start of the array.  The faulty variant
\* hands out the cursor already made.
toIteratorShared(c) == c

toIterator(c) == iter(c.items, 0)

(***************************************************************************)
(* Inputs                                                                  *)
(***************************************************************************)
Sources == SeqsUpTo(Nums, MaxLen)
\* the further sequences given to zip and join, by their lengths: the k-th
\* value of the i-th is 10 * i + k
Others(lens) ==
  [i \in 1..Len(lens) |-> [k \in 1..lens[i] |-> Num(10 * i + k)]]
OtherSources == {Others(lens) : lens \in SeqsUpTo(0..MaxOtherLen, MaxOthers)}
Rewinds == 0..MaxRewind
Predicates == [Nums -> BOOLEAN]
Mappers == [Nums -> Nums]
Amounts == 0..(MaxLen + 1)
Depths == 0..MaxDepth

\* nested arrays by their number of nodes (leaves and arrays)
FlatLeaves == {Num(1), Num(2), Null}
RECURSIVE NestedOfSize(_), ListsOfSize(_)
NestedOfSize(n) ==
  (IF n = 1 THEN FlatLeaves ELSE {}) \cup {Arr(s) : s \in ListsOfSize(n - 1)}
ListsOfSize(m) ==
  IF m = 0 THEN {<<>>}
  ELSE UNION {{<<x>> \o rest : x \in NestedOfSize(k),
                               rest \in ListsOfSize(m - k)} : k \in 1..m}
FlatSources == UNION {ListsOfSize(m) : m \in 0..MaxNodes}

\* what a flatMap mapper returns: a number, null, or an array
FlatMapResults ==
  {Num(1), Null, Arr(<<>>), Arr(<<Num(2)>>),
   Arr(<<Num(1), Arr(<<Num(2)>>)>>)}
FlatMappers == [Nums -> FlatMapResults]

JsVals == {Num(1), NaN, Undefined, Null, Str(1), Str(2), Obj(1)}
JsSources == SeqsUpTo(JsVals, MaxLen)

(***************************************************************************)
(* State                                                                   *)
(*   it       the object under traversal                                   *)
(*   log      the results of the next() calls made on it, in order         *)
(*   twin     a second traversal of the same source, or Null               *)
(*   twinLog  the results of the next() calls made on twin                 *)
(*   ret      the last terminal operation called on it, with its result    *)
(*   second   an independent iter(source) over the array `it' was built    *)
(*            over, with the result of its toArray(); or Null              *)
(***************************************************************************)
VARIABLES it, log, twin, twinLog, ret, second
vars == <<it, log, twin, twinLog, ret, second>>

DoneMark == [t |-> "done", v |-> 0]
ThrowMark == [t |-> "throw", v |-> 0]
Entry(r) == IF r.threw THEN ThrowMark ELSE IF r.done THEN DoneMark ELSE r.value
NoRet == [op |-> "none"]

Init ==
  /\ \/ \E items \in Sources \cup FlatSources, r \in Rewinds :
          it = iter(items, r)
     \/ \E items \in JsSources : it = iter(items, 0)
  /\ log = <<>>
  /\ twin = Null
  /\ twinLog = <<>>
  /\ ret = NoRet
  /\ second = Null

(***************************************************************************)
(* The adaptor methods of Iterator (lines 111-141): each wraps `this' in   *)
(* a new adaptor object.  They are applied to an Iterator that has not     *)
(* been pulled yet.                                                        *)
(***************************************************************************)
Fresh == it.kind = "iter" /\ it.pulls = 0

Wrap(adaptor) ==
  /\ it' = adaptor
  /\ UNCHANGED <<log, twin, twinLog, ret, second>>

map ==
  /\ Fresh /\ it.items \in Sources
  /\ \E mapper \in Mappers : Wrap(MapIterator(it, mapper))

filter ==
  /\ Fresh /\ it.items \in Sources
  /\ \E predicate \in Predicates : Wrap(FilterIterator(it, predicate))

flat ==
  /\ Fresh /\ it.items \in FlatSources
  /\ \E depth \in Depths : Wrap(FlatIterator(it, depth))

flatMap ==
  /\ Fresh /\ it.items \in Sources
  /\ \E mapper \in FlatMappers : Wrap(FlatMapIterator(it, mapper))

zip ==
  /\ Fresh /\ it.items \in Sources
  /\ \E iterators \in OtherSources : Wrap(ZipIterator(it, iterators))

join ==
  /\ Fresh /\ it.items \in Sources
  /\ \E iterators \in OtherSources : Wrap(JoinIterator(it, iterators))

take ==
  /\ Fresh /\ it.items \in Sources
  /\ \E amount \in Amounts : Wrap(TakeIterator(it, amount))

takeWhile ==
  /\ Fresh /\ it.items \in Sources
  /\ \E predicate \in Predicates : Wrap(TakeWhileIterator(it, predicate))

\* iter(source).map(mapper).flat(1) over the sequence and mapper of a
\* FlatMapIterator that has not been pulled yet
mapFlat ==
  /\ it.kind = "flatMap" /\ log = <<>> /\ twin = Null
  /\ Permanent(it.base)
  /\ twin' = FlatIterator(MapIterator(it.base, it.mapper), 1)
  /\ UNCHANGED <<it, log, twinLog, ret, second>>

(***************************************************************************)
(* next() on the object under traversal, by class                          *)
(***************************************************************************)
Dones(l) == Len(SelectSeq(l, LAMBDA e : e = DoneMark))

Call(kind, r) ==
  /\ it.kind = kind
  /\ Dones(log) < MaxDones
  /\ it' = r.o
  /\ log' = Append(log, Entry(r))
  /\ UNCHANGED <<twin, twinLog, ret, second>>

\* next() calls on the root come before the terminal operation: what a
\* terminal operation did is read from ret, and it is called once
IteratorCall == ret = NoRet /\ Call("iter", IteratorNext(it))
MapCall == Call("map", MapNext(it))
FilterCall == Call("filter", FilterNext(it))
FlatCall == Call("flat", FlatNext(it))
\* a FlatMapIterator and its twin are pulled in turn
FlatMapCall ==
  /\ twin # Null => Len(twinLog) = Len(log)
  /\ Call("flatMap", FlatMapNext(it))
TakeCall == Call("take", TakeNext(it))
TakeWhileCall == Call("takeWhile", TakeWhileNext(it))
ZipCall == Call("zip", ZipNext(it))
JoinCall == Call("join", JoinNext(it))

TwinCall ==
  /\ twin # Null
  /\ Len(twinLog) < Len(log)
  /\ LET r == FlatNext(twin)
     IN /\ twin' = r.o
        /\ twinLog' = Append(twinLog, Entry(r))
  /\ UNCHANGED <<it, log, ret, second>>

(***************************************************************************)
(* Terminal operations, on an Iterator                                     *)
(***************************************************************************)
\* the values the cursor produces before it next reports done
Remaining(c) == SubSeq(c.items, c.pos, Len(c.items))

\* a terminal operation is called once
Terminal == it.kind = "iter" /\ it.items \in JsSources /\ ret = NoRet

includes ==
  /\ Terminal
  /\ \E element \in JsVals :
       LET r == Includes(it, element)
       IN /\ it' = r.o
          /\ ret' = [op |-> "includes", element |-> element,
                     remaining |-> Remaining(it), result |-> r.result]
  /\ UNCHANGED <<log, twin, twinLog, second>>

reduce ==
  /\ Terminal
  /\ \E reducer \in Reducers, args \in SeqsUpTo(JsVals, 1) :
       LET r == Reduce(it, reducer, args)
       IN /\ it' = r.o
          /\ ret' = [op |-> "reduce", reducer |-> reducer, args |-> args,
                     remaining |-> Remaining(it), threw |-> r.threw,
                     result |-> r.result, fnCalls |-> r.fnCalls]
  /\ UNCHANGED <<log, twin, twinLog, second>>

\* the terminal operations that take a count or a predicate are called on
\* an Iterator over numbers
TerminalOverNums == it.kind = "iter" /\ it.items \in Sources /\ ret = NoRet

\* pulls and dones are the next() calls the operation made and those of
\* them that reported done
skip ==
  /\ TerminalOverNums
  /\ \E amount \in Amounts :
       LET o == Skip(it, amount)
       IN /\ it' = o
          /\ ret' = [op |-> "skip", amount |-> amount,
                     remaining |-> Remaining(it),
                     pulls |-> o.pulls - it.pulls,
                     dones |-> o.dones - it.dones]
  /\ UNCHANGED <<log, twin, twinLog, second>>

someCount ==
  /\ TerminalOverNums
  /\ \E predicate \in Predicates, count \in Amounts :
       LET r == SomeCount(it, predicate, count)
       IN /\ it' = r.o
          /\ ret' = [op |-> "someCount", predicate |-> predicate,
                     count |-> count, remaining |-> Remaining(it),
                     pulls |-> r.o.pulls - it.pulls, result |-> r.result]
  /\ UNCHANGED <<log, twin, twinLog, second>>

\* every, some and find; after is the result of a toArray() called next
ShortCircuits == {"every", "some", "find"}

Decided(op, r, predicate) ==
  /\ it' = r.o
  /\ ret' = [op |-> op, predicate |-> predicate, remaining |-> Remaining(it),
             pulls |-> r.o.pulls - it.pulls, dones |-> r.o.dones - it.dones,
             result |-> r.result, after |-> Undefined]
  /\ UNCHANGED <<log, twin, twinLog, second>>

every ==
  /\ TerminalOverNums
  /\ \E predicate \in Predicates :
       Decided("every", Every(it, predicate), predicate)

some ==
  /\ TerminalOverNums
  /\ \E predicate \in Predicates :
       Decided("some", Some(it, predicate), predicate)

find ==
  /\ TerminalOverNums
  /\ \E predicate \in Predicates :
       Decided("find", Find(it, predicate), predicate)

\* toArray() on the instance every, some or find was called on
toArray ==
  /\ ret.op \in ShortCircuits /\ ret.after = Undefined
  /\ LET r == ToArray(it)
     IN /\ it' = r.o
        /\ ret' = [ret EXCEPT !.after = r.result]
  /\ UNCHANGED <<log, twin, twinLog, second>>

(***************************************************************************)
(* A second, independent traversal of the array the first was built over   *)
(***************************************************************************)
\* the cursor of the source an object is built over
SourceCursor(o) ==
  IF o.kind = "iter" THEN o
  ELSE IF o.base.kind = "iter" THEN o.base ELSE o.base.base

\* iter(source), at any point of the first traversal
iterAgain ==
  /\ second = Null
  /\ SourceCursor(it).items \in Sources /\ Permanent(SourceCursor(it))
  /\ second' = [it |-> toIterator(SourceCursor(it)), array |-> Undefined]
  /\ UNCHANGED <<it, log, twin, twinLog, ret>>

secondToArray ==
  /\ second # Null /\ second.array = Undefined
  /\ LET r == ToArray(second.it)
     IN second' = [it |-> r.o, array |-> r.result]
  /\ UNCHANGED <<it, log, twin, twinLog, ret>>

Next ==
  \/ map \/ filter \/ flat \/ flatMap \/ zip \/ join \/ take \/ takeWhile
  \/ mapFlat
  \/ IteratorCall \/ MapCall \/ FilterCall \/ FlatCall \/ FlatMapCall
  \/ TakeCall \/ TakeWhileCall \/ ZipCall \/ JoinCall \/ TwinCall
  \/ includes \/ reduce \/ skip \/ someCount
  \/ every \/ some \/ find \/ toArray
  \/ iterAgain \/ secondToArray

Spec == Init /\ [][Next]_vars

(***************************************************************************)
(* Properties                                                              *)
(***************************************************************************)
Adaptors ==
  {"map", "filter", "flat", "flatMap", "take", "takeWhile", "zip", "join"}

Min(a, b) == IF a <= b THEN a ELSE b

\* the values a log holds, in order
Values(l) == SelectSeq(l, LAMBDA e : e.t \notin {"done", "throw"})

\* the index of the first call that reported done, 0 if none did
FirstDone(l) ==
  IF \E i \in 1..Len(l) : l[i] = DoneMark
    THEN CHOOSE i \in 1..Len(l) :
           l[i] = DoneMark /\ \A j \in 1..(i - 1) : l[j] # DoneMark
    ELSE 0

\* the values returned before the first call that reported done
BeforeDone(l) == Values(SubSeq(l, 1, FirstDone(l) - 1))

\* no call reports anything but done after a call that reported done
StaysDone(l) ==
  \A i \in 1..Len(l) : \A j \in i..Len(l) :
    l[i] = DoneMark => l[j] = DoneMark

\* a call was made after the first call that reported done
CalledAfterDone(l) == FirstDone(l) > 0 /\ Len(l) > FirstDone(l)

\* the cursor of the source an adaptor is built over
Root(o) == IF o.base.kind = "iter" THEN o.base ELSE o.base.base

\* C1: an adaptor over cursors whose exhaustion is permanent never reports
\* anything but done once one of its next() calls has reported done.
C1_ExhaustionPermanent ==
  (it.kind \in Adaptors /\ Permanent(Root(it))) => StaysDone(log)

\* a zip called again after it reported done for an exhausted secondary
\* while its primary still has values
C1_Witness ==
  /\ it.kind = "zip" /\ Permanent(it.base)
  /\ CalledAfterDone(log)
  /\ it.base.pos <= Len(it.base.items)

C3_TakeYieldsPrefix ==
  (it.kind = "take" /\ Permanent(it.base) /\ FirstDone(log) > 0) =>
    BeforeDone(log) =
      SubSeq(it.base.items, 1, Min(it.amount, Len(it.base.items)))

\* a take of fewer values than the sequence holds, pulled until done
C3_Witness ==
  /\ it.kind = "take" /\ Permanent(it.base) /\ FirstDone(log) > 0
  /\ 0 < it.amount /\ it.amount < Len(it.base.items)

\* the length of the longest prefix of s whose values all satisfy p
PrefixLen(s, p) ==
  CHOOSE k \in 0..Len(s) :
    /\ \A i \in 1..k : p[s[i]]
    /\ k < Len(s) => ~p[s[k + 1]]

\* C4: takeWhile(p) returns, before it first reports done, exactly the
\* longest prefix of the upstream whose values all satisfy p.
C4_TakeWhileLongestPrefix ==
  (it.kind = "takeWhile" /\ Permanent(it.base) /\ FirstDone(log) > 0) =>
    BeforeDone(log) =
      SubSeq(it.base.items, 1, PrefixLen(it.base.items, it.predicate))

\* a takeWhile that returned a value, met a failing value and was pulled
\* until done, over a sequence with a satisfying value after the failing one
C4_Witness ==
  /\ it.kind = "takeWhile" /\ Permanent(it.base) /\ FirstDone(log) > 0
  /\ LET k == PrefixLen(it.base.items, it.predicate)
     IN /\ k > 0
        /\ \E i \in (k + 2)..Len(it.base.items) :
             it.predicate[it.base.items[i]]

\* the inputs of a zip or join, primary first
Inputs(o, others) ==
  <<o.base.items>> \o [i \in 1..Len(others) |-> others[i].items]

RECURSIVE MinLen(_)
MinLen(seqs) ==
  IF Len(seqs) = 1 THEN Len(seqs[1])
  ELSE Min(Len(seqs[1]), MinLen(Tail(seqs)))

\* C5: zip produces as many tuples as its shortest input has values, the
\* k-th being the k-th value of each input, primary first.
C5_ZipTuples ==
  (it.kind = "zip" /\ Permanent(it.base) /\ FirstDone(log) > 0) =>
    LET inputs == Inputs(it, it.iterators)
    IN BeforeDone(log) =
         [k \in 1..MinLen(inputs) |->
            Arr([i \in 1..Len(inputs) |-> inputs[i][k]])]

\* a zip of three inputs of different lengths that produced a tuple and
\* was pulled until done
C5_Witness ==
  /\ it.kind = "zip" /\ Permanent(it.base) /\ FirstDone(log) > 1
  /\ Len(it.iterators) = 2
  /\ Len(it.iterators[1].items) # Len(it.iterators[2].items)
  /\ Len(it.base.items) > Len(it.iterators[1].items)

RECURSIVE Concat(_)
Concat(seqs) == IF seqs = <<>> THEN <<>> ELSE Head(seqs) \o Concat(Tail(seqs))

\* C6: join yields the concatenation of its inputs in declared order, and
\* pulls a cursor only after every earlier cursor has reported done.
C6_JoinConcatenates ==
  it.kind = "join" =>
    /\ (Permanent(it.base) /\ FirstDone(log) > 0) =>
         BeforeDone(log) = Concat(Inputs(it, it.cursors))
    /\ \A k \in 1..Len(it.cursors) :
         it.cursors[k].pulls > 0 =>
           /\ it.base.dones > 0
           /\ \A j \in 1..(k - 1) : it.cursors[j].dones > 0

\* a join of a non-empty, an empty and a non-empty sequence, pulled until
\* done
C6_Witness ==
  /\ it.kind = "join" /\ Permanent(it.base) /\ FirstDone(log) > 0
  /\ Len(it.cursors) = 2
  /\ it.base.items # <<>>
  /\ it.cursors[1].items = <<>>
  /\ it.cursors[2].items # <<>>

\* the depth-bounded flatten of a sequence of nested arrays
RECURSIVE FlatReference(_, _)
FlatReference(s, depth) ==
  IF s = <<>> THEN <<>>
  ELSE (IF depth > 0 /\ Head(s).t = "arr"
          THEN FlatReference(Head(s).v, depth - 1)
          ELSE <<Head(s)>>)
       \o FlatReference(Tail(s), depth)

\* the leaves of a sequence of nested arrays
RECURSIVE Leaves(_)
Leaves(s) ==
  IF s = <<>> THEN {}
  ELSE (IF Head(s).t = "arr" THEN Leaves(Head(s).v) ELSE {Head(s)})
       \cup Leaves(Tail(s))

\* C7: flat(d) yields what the depth-bounded flatten of the sequence
\* yields, a leaf that is not enumerable unchanged, and raises no error.
C7_FlatMatchesReference ==
  (it.kind = "flat" /\ Permanent(it.base)) =>
    /\ \A i \in 1..Len(log) : log[i] # ThrowMark
    /\ FirstDone(log) > 0 =>
         BeforeDone(log) = FlatReference(it.base.items, Len(it.stack) - 1)

\* flat(d) agrees with the depth-bounded flatten on the sequences that
\* hold neither null nor undefined
FlatMatchesReferenceWithoutNull ==
  (it.kind = "flat" /\ Permanent(it.base)
     /\ \A leaf \in Leaves(it.base.items) : ~PropertyReadThrows(leaf)) =>
    /\ \A i \in 1..Len(log) : log[i] # ThrowMark
    /\ FirstDone(log) > 0 =>
         BeforeDone(log) = FlatReference(it.base.items, Len(it.stack) - 1)

\* the calls made on both a flatMap(f) and a map(f).flat(1) over the same
\* sequence reported the same
SameAsTwin ==
  \A i \in 1..Min(Len(log), Len(twinLog)) : log[i] = twinLog[i]

\* C8: flatMap(f) produces the output of map(f).flat(1), and returns a
\* mapped result that is not enumerable as a single value, with no error.
C8_FlatMapIsMapThenFlat ==
  (it.kind = "flatMap" /\ Permanent(it.base)) =>
    /\ twin # Null => SameAsTwin
    /\ \A i \in 1..Len(log) : log[i] # ThrowMark

\* flatMap(f) and map(f).flat(1) over a sequence report the same call by
\* call, errors included
FlatMapSameAsTwin ==
  (it.kind = "flatMap" /\ Permanent(it.base) /\ twin # Null) => SameAsTwin

\* C9: reduce over a sequence exhausted at the first pull returns a
\* supplied initial value without calling the reducer, and raises only
\* when no initial value was supplied.
C9_ReduceOfExhausted ==
  (ret.op = "reduce" /\ ret.remaining = <<>>) =>
    /\ Len(ret.args) = 1 =>
         ~ret.threw /\ ret.result = ret.args[1] /\ ret.fnCalls = 0
    /\ ret.threw => Len(ret.args) = 0

\* reduce over an exhausted sequence returns an initial value other than
\* undefined without calling the reducer
ReduceOfExhaustedDefined ==
  (ret.op = "reduce" /\ ret.remaining = <<>> /\ Len(ret.args) = 1
     /\ ret.args[1] # Undefined) =>
    ~ret.threw /\ ret.result = ret.args[1] /\ ret.fnCalls = 0

\* a and b are the same value, NaN being the same as NaN
SameValueZero(a, b) == a = b

\* C10: includes(element) is true exactly when a remaining value equals
\* element or both are NaN.
C10_IncludesEquality ==
  ret.op = "includes" =>
    (ret.result <=>
       \E i \in 1..Len(ret.remaining) :
         SameValueZero(ret.remaining[i], ret.element))

\* C11: skip(n) stops at exhaustion: it makes at most one pull more than
\* there are values remaining, and none after a pull that reported done.
C11_SkipStopsAtExhaustion ==
  ret.op = "skip" =>
    /\ ret.pulls <= Len(ret.remaining) + 1
    /\ ret.dones <= 1

\* skip(n) makes n pulls, whatever they report
SkipPullsAmount == ret.op = "skip" => ret.pulls = ret.amount

\* the number of values of s that satisfy p
RECURSIVE Satisfying(_, _)
Satisfying(s, p) ==
  IF s = <<>> THEN 0
  ELSE (IF p[Head(s)] THEN 1 ELSE 0) + Satisfying(Tail(s), p)

\* the length of the shortest prefix of s with n values that satisfy p
ShortestWith(s, p, n) ==
  CHOOSE k \in 0..Len(s) :
    /\ Satisfying(SubSeq(s, 1, k), p) = n
    /\ \A j \in 0..(k - 1) : Satisfying(SubSeq(s, 1, j), p) < n

\* C12: someCount(p, n) is true, without a further pull, once n pulled
\* values satisfied p, and false only if the sequence has fewer than n
\* such values; n = 0 included.
C12_SomeCountCounts ==
  ret.op = "someCount" =>
    LET enough == Satisfying(ret.remaining, ret.predicate) >= ret.count
    IN /\ ret.result <=> enough
       /\ enough =>
            ret.pulls = ShortestWith(ret.remaining, ret.predicate, ret.count)

\* someCount(p, n) with n > 0 is true exactly when n values satisfy p
SomeCountPositive ==
  (ret.op = "someCount" /\ ret.count > 0) =>
    LET enough == Satisfying(ret.remaining, ret.predicate) >= ret.count
    IN /\ ret.result <=> enough
       /\ enough =>
            ret.pulls = ShortestWith(ret.remaining, ret.predicate, ret.count)

\* C13: a second iter(source) over the same array, made at any point of
\* the first traversal, starts at the first value and yields the whole
\* array, whatever the first traversal did.
C13_TraversalsIndependent ==
  second # Null =>
    /\ second.array = Undefined => Remaining(second.it) = SourceCursor(it).items
    /\ second.array # Undefined =>
         second.array = Arr(SourceCursor(it).items)

\* a second traversal collected after the first, a filter, was abandoned
\* with values pulled and values left
C13_Witness ==
  /\ second # Null /\ second.array # Undefined
  /\ it.kind = "filter"
  /\ it.base.pulls > 0 /\ it.base.pos <= Len(it.base.items)

\* the number of next() calls made so far on the cursors an object holds
RECURSIVE SumPulls(_)
SumPulls(cursors) ==
  IF cursors = <<>> THEN 0 ELSE Head(cursors).pulls + SumPulls(Tail(cursors))

Pulls(o) ==
  IF o = Null THEN 0
  ELSE SourceCursor(o).pulls
       + (IF o.kind = "zip" THEN SumPulls(o.iterators)
          ELSE IF o.kind = "join" THEN SumPulls(o.cursors) ELSE 0)

\* C14: a step that is no next() call and no terminal operation, so the
\* construction of an adaptor (and of map(...).flat(1) in a chain), pulls
\* nothing from any cursor; no cursor is pulled before the first call.
C14_ConstructionLazy ==
  /\ []((log = <<>> /\ ret = NoRet) => Pulls(it) = 0)
  /\ []((twin # Null /\ twinLog = <<>>) => Pulls(twin) = 0)
  /\ [][/\ (log' = log /\ ret' = ret) => Pulls(it') = Pulls(it)
        /\ twinLog' = twinLog => Pulls(twin') = Pulls(twin)]_vars

\* a zip adaptor over a non-empty sequence and two others, and a chain
\* map(...).flat(1), before their first next()
C14_Witness ==
  \/ /\ it.kind = "zip" /\ log = <<>> /\ Len(it.iterators) = 2
     /\ it.base.items # <<>> /\ it.iterators[1].items # <<>>
  \/ /\ twin # Null /\ twinLog = <<>> /\ twin.base.base.items # <<>>

\* C15: take(n) pulls its upstream once per call up to the n-th call and
\* never after: the pulls are min(calls, n), none at all for take(0).
C15_TakePullsAtMostAmount ==
  it.kind = "take" =>
    /\ it.base.pulls <= it.amount
    /\ it.base.pulls = Min(Len(log), it.amount)
    /\ it.amount = 0 => it.base.pulls = 0

\* take(n) called more than n times over a sequence with values left
C15_Witness ==
  /\ it.kind = "take" /\ it.amount > 0 /\ Len(log) > it.amount + 1
  /\ it.base.pos <= Len(it.base.items)

\* C16: takeWhile is finished exactly from the first call that reported
\* done, a call made when finished reports done and changes nothing (no
\* pull, no predicate call), and the pulls are at most the values returned
\* plus one.
C16_TakeWhileSticky ==
  /\ [](it.kind = "takeWhile" =>
          /\ it.done <=> FirstDone(log) > 0
          /\ it.base.pulls <= Len(Values(log)) + 1
          /\ it.tested <= Len(Values(log)) + 1)
  /\ [][(it.kind = "takeWhile" /\ it.done) =>
          /\ it' = it
          /\ log' # log => log' = Append(log, DoneMark)]_vars

\* takeWhile called again after the predicate failed, with values left
C16_Witness ==
  /\ it.kind = "takeWhile" /\ it.done /\ Dones(log) >= 2
  /\ it.base.pos <= Len(it.base.items)
  /\ it.tested = Len(Values(log)) + 1

\* the cursors of a zip adaptor in declared order, the primary first
ZipCursors(z) == <<z.base>> \o z.iterators

\* C17 as stated: once zip has reported done, no later call takes a value
\* from the primary or from a secondary that still has values.
C17_NoPullAfterDone ==
  [][(it.kind = "zip" /\ Permanent(it.base) /\ Dones(log) > 0) =>
       \A i \in 1..Len(ZipCursors(it)) :
         ZipCursors(it')[i].pos = ZipCursors(it)[i].pos]_vars

\* C17, amended: within one next() call zip pulls its cursors in declared
\* order, each at most once, and stops at the first that reports done: no
\* cursor after it is pulled in that call, and the call reports done exactly
\* then.  (Later calls start again at the primary.)
C17_StopsAtFirstExhausted ==
  [][(it.kind = "zip" /\ log' # log) =>
       LET n == Len(ZipCursors(it))
           pulled(i) == ZipCursors(it')[i].pulls - ZipCursors(it)[i].pulls
           ended(i) == ZipCursors(it')[i].dones - ZipCursors(it)[i].dones
       IN /\ \A i \in 1..n : pulled(i) \in {0, 1} /\ ended(i) <= pulled(i)
          /\ \A i \in 2..n : pulled(i) = 1 =>
                               pulled(i - 1) = 1 /\ ended(i - 1) = 0
          /\ log'[Len(log')] = DoneMark <=> \E i \in 1..n : ended(i) = 1
          /\ log'[Len(log')] # DoneMark => \A i \in 1..n : pulled(i) = 1]_vars

\* zip called twice with its first secondary exhausted: the primary gave up
\* two values, the second secondary was never pulled
C17_Witness ==
  /\ it.kind = "zip" /\ Len(it.iterators) = 2
  /\ it.iterators[1].dones >= 2
  /\ it.iterators[2].pulls = 0 /\ it.iterators[2].items # <<>>
  /\ it.base.pulls >= 2 /\ it.base.dones = 0

\* C18: the cursor of the k-th queued sequence of join exists only once the
\* cursor before it has reported done.
C18_JoinCursorsLazy ==
  it.kind = "join" =>
    \A k \in 1..Len(it.cursors) :
      (IF k = 1 THEN it.base ELSE it.cursors[k - 1]).dones > 0

\* what holds instead: every cursor exists from construction on, and the
\* k-th is not pulled before the one in front of it has reported done
JoinCursorsEagerUnpulled ==
  it.kind = "join" =>
    \A k \in 1..Len(it.cursors) :
      /\ it.cursors[k].kind = "iter"
      /\ it.cursors[k].pulls > 0 =>
           (IF k = 1 THEN it.base ELSE it.cursors[k - 1]).dones > 0

\* C19: flat(d) keeps -1 <= currentDepth <= d, a cursor that has not
\* reported done in each slot 0..currentDepth and no cursor in the slots
\* above; the depth only grows below d; at -1 it stays, and every call
\* reports done.
Empty(slot) == slot \in {Null, Undefined}

Live(f, i) ==
  IF i = 1 THEN f.stack[1] = BaseRef /\ f.base.dones = 0
  ELSE ~Empty(f.stack[i]) /\ f.stack[i].kind = "iter" /\ f.stack[i].dones = 0

C19_FlatStack ==
  /\ [](it.kind = "flat" =>
          LET d == Len(it.stack) - 1
          IN /\ -1 <= it.currentDepth /\ it.currentDepth <= d
             /\ \A i \in 1..(it.currentDepth + 1) : Live(it, i)
             /\ \A i \in (it.currentDepth + 2)..(d + 1) : Empty(it.stack[i]))
  /\ [][it.kind = "flat" =>
          /\ it'.currentDepth > it.currentDepth =>
               it.currentDepth < Len(it.stack) - 1
          /\ it.currentDepth = -1 =>
               /\ it'.currentDepth = -1
               /\ log' # log => log' = Append(log, DoneMark)]_vars

\* flat(2) back at depth 1 after a cursor at depth 2 was pushed and popped,
\* and flat called again after its stack had emptied
C19_Witness ==
  /\ it.kind = "flat"
  /\ \/ Len(it.stack) = 3 /\ it.currentDepth = 1 /\ it.stack[3] = Null
     \/ it.currentDepth = -1 /\ Dones(log) >= 2

\* the position in s of the value that decides op, 0 if there is none
Deciding(op, s, p) ==
  LET decides(i) == IF op = "every" THEN ~p[s[i]] ELSE p[s[i]]
  IN IF \E i \in 1..Len(s) : decides(i)
       THEN CHOOSE i \in 1..Len(s) :
              decides(i) /\ \A j \in 1..(i - 1) : ~decides(j)
       ELSE 0

\* C20: every, some and find make exactly i pulls when the deciding value
\* is the i-th remaining one, and a toArray() called next returns the values
\* after it; without a deciding value they pull up to the done and return
\* true, false and undefined.
C20_ShortCircuit ==
  ret.op \in ShortCircuits =>
    LET s == ret.remaining
        i == Deciding(ret.op, s, ret.predicate)
    IN IF i > 0
         THEN /\ ret.pulls = i /\ ret.dones = 0
              /\ ret.result = (IF ret.op = "every" THEN FALSE
                               ELSE IF ret.op = "some" THEN TRUE ELSE s[i])
              /\ ret.after # Undefined =>
                   ret.after = Arr(SubSeq(s, i + 1, Len(s)))
         ELSE /\ ret.pulls = Len(s) + 1 /\ ret.dones = 1
              /\ ret.result = (IF ret.op = "every" THEN TRUE
                               ELSE IF ret.op = "some" THEN FALSE
                               ELSE Undefined)

\* some decided by the second of three remaining values, then toArray()
C20_Witness ==
  /\ ret.op = "some" /\ ret.after # Undefined
  /\ Len(ret.remaining) = 3
  /\ Deciding("some", ret.remaining, ret.predicate) = 2

====
